---- MODULE Spec2Model ----
(***************************************************************************)
(* Model of rootKeyAuth (apps/api/src/pkg/auth/root_key.ts).               *)
(*                                                                         *)
(* One invocation of the async function is followed from the read of the   *)
(* authorization header to its completion.  The function has one           *)
(* suspension point, the await of keyService.verifyKey; the code before    *)
(* it and the code after it are each one atomic step.  The verification    *)
(* service is the environment: its promise is fulfilled with a Result      *)
(* ({ value } or { error }) or rejected with a thrown Error.               *)
(*                                                                         *)
(* Strings are sequences of one-character strings.  An optional value is   *)
(* a record with a "present" flag (present = FALSE models undefined).      *)
(***************************************************************************)
EXTENDS Integers, Sequences, FiniteSets, TLC

VARIABLES pc, header, authorization, calls, keyArg, settlement, outcome

vars == <<pc, header, authorization, calls, keyArg, settlement, outcome>>

(***************************************************************************)
(* Bounds and input sets                                                   *)
(***************************************************************************)
\* longest run of characters put before and after the scheme word of a header
MaxPad == 2

\* characters of the text around the scheme word: a token character, a space
PadChars == {"k", " "}

RECURSIVE SeqsUpTo(_, _)
SeqsUpTo(S, n) ==
  IF n = 0 THEN {<<>>}
  ELSE LET shorter == SeqsUpTo(S, n - 1)
       IN  shorter \cup {Append(s, c) : s \in {t \in shorter : Len(t) = n - 1}, c \in S}

\* the literal "Bearer " of line 12
Bearer == <<"B", "e", "a", "r", "e", "r", " ">>

\* the same word in another case, an input only
LowerBearer == <<"b", "e", "a", "r", "e", "r", " ">>

SchemeWords == {<<>>, Bearer, LowerBearer, Bearer \o Bearer}

HeaderTexts == {p \o w \o s : p \in SeqsUpTo(PadChars, MaxPad), w \in SchemeWords,
                              s \in SeqsUpTo(PadChars, MaxPad)}

\* string | undefined
Undefined == [present |-> FALSE, text |-> <<>>]
Str(t) == [present |-> TRUE, text |-> t]

\* what c.req.header("authorization") can return
Headers == {Undefined} \cup {Str(t) : t \in HeaderTexts}

Messages == {"", "fetch failed", "db unavailable"}
OwnerIds == {"owner_1", "owner_2"}

\* rootKey.value: the fields the guard reads plus one pass-through field
NoValue == [present |-> FALSE, valid |-> FALSE, isRootKey |-> FALSE, ownerId |-> ""]
Value(v, r, o) == [present |-> TRUE, valid |-> v, isRootKey |-> r, ownerId |-> o]
Values == {Value(v, r, o) : v \in BOOLEAN, r \in BOOLEAN, o \in OwnerIds}

\* rootKey.error
NoError == [present |-> FALSE, message |-> ""]
Err(m) == [present |-> TRUE, message |-> m]

\* the Result keyService.verifyKey resolves to: a value, or an error (whatever
\* else the object carries)
Results == {[error |-> NoError, value |-> v] : v \in Values}
           \cup {[error |-> Err(m), value |-> v] : m \in Messages, v \in Values \cup {NoValue}}

NoResult == [error |-> NoError, value |-> NoValue]

Pending == [status |-> "pending", result |-> NoResult, reason |-> ""]
Fulfilled(r) == [status |-> "fulfilled", result |-> r, reason |-> ""]
Rejected(m) == [status |-> "rejected", result |-> NoResult, reason |-> m]

(***************************************************************************)
(* Errors and outcomes                                                     *)
(***************************************************************************)
NoThrown == [name |-> "", code |-> "", message |-> ""]

\* new UnkeyApiError({ code, message })
UnkeyApiError(code, message) == [name |-> "UnkeyApiError", code |-> code, message |-> message]

\* an exception that is not an UnkeyApiError: it has a message and no code
ThrownError(message) == [name |-> "Error", code |-> "", message |-> message]

NoOutcome == [type |-> "none", error |-> NoThrown, value |-> NoValue]
Throw(e) == [type |-> "throw", error |-> e, value |-> NoValue]
Return(v) == [type |-> "return", error |-> NoThrown, value |-> v]

(***************************************************************************)
(* Line 12: c.req.header("authorization")?.replace("Bearer ", "")          *)
(***************************************************************************)
\* the candidate positions of pat in s
Occurrences(s, pat) ==
  {i \in 1..(Len(s) - Len(pat) + 1) : SubSeq(s, i, i + Len(pat) - 1) = pat}

\* String.prototype.indexOf, 1-based, 0 when pat does not occur
IndexOf(s, pat) ==
  LET occ == Occurrences(s, pat)
  IN  IF occ = {} THEN 0 ELSE CHOOSE i \in occ : \A j \in occ : i <= j

\* String.prototype.replace with a string pattern: the first occurrence only
Replace(s, pat, rep) ==
  LET i == IndexOf(s, pat)
  IN  IF i = 0 THEN s
      ELSE SubSeq(s, 1, i - 1) \o rep \o SubSeq(s, i + Len(pat), Len(s))

\* the optional chain: undefined stays undefined
Authorization(h) ==
  IF h.present THEN Str(Replace(h.text, Bearer, <<>>)) ELSE Undefined

FalsyEmptyOnly(a) == a.present /\ a.text = <<>>

FalsyUndefinedOnly(a) == ~a.present

\* line 13, !authorization: undefined and the empty string are falsy
Falsy(a) == ~a.present \/ a.text = <<>>

(***************************************************************************)
(* Lines 16-27: what the function does once the awaited promise settles    *)
(***************************************************************************)
DecideDefaultAllow(rootKey) ==
  IF rootKey.error.present THEN Return(rootKey.value)
  ELSE IF ~rootKey.value.valid
    THEN Throw(UnkeyApiError("UNAUTHORIZED", "the root key is not valid"))
  ELSE IF ~rootKey.value.isRootKey
    THEN Throw(UnkeyApiError("UNAUTHORIZED", "root key required"))
  ELSE Return(rootKey.value)

DecideValidBeforeError(rootKey) ==
  IF ~rootKey.value.valid
    THEN Throw(UnkeyApiError("UNAUTHORIZED", "the root key is not valid"))
  ELSE IF rootKey.error.present
    THEN Throw(UnkeyApiError("INTERNAL_SERVER_ERROR", rootKey.error.message))
  ELSE IF ~rootKey.value.isRootKey
    THEN Throw(UnkeyApiError("UNAUTHORIZED", "root key required"))
  ELSE Return(rootKey.value)

DecideRootBeforeValid(rootKey) ==
  IF rootKey.error.present
    THEN Throw(UnkeyApiError("INTERNAL_SERVER_ERROR", rootKey.error.message))
  ELSE IF ~rootKey.value.isRootKey
    THEN Throw(UnkeyApiError("UNAUTHORIZED", "root key required"))
  ELSE IF ~rootKey.value.valid
    THEN Throw(UnkeyApiError("UNAUTHORIZED", "the root key is not valid"))
  ELSE Return(rootKey.value)

DecideOneMessage(rootKey) ==
  IF rootKey.error.present
    THEN Throw(UnkeyApiError("INTERNAL_SERVER_ERROR", rootKey.error.message))
  ELSE IF ~rootKey.value.valid \/ ~rootKey.value.isRootKey
    THEN Throw(UnkeyApiError("UNAUTHORIZED", "the root key is not valid"))
  ELSE Return(rootKey.value)

DecideDropsFields(rootKey) ==
  IF rootKey.error.present
    THEN Throw(UnkeyApiError("INTERNAL_SERVER_ERROR", rootKey.error.message))
  ELSE IF ~rootKey.value.valid
    THEN Throw(UnkeyApiError("UNAUTHORIZED", "the root key is not valid"))
  ELSE IF ~rootKey.value.isRootKey
    THEN Throw(UnkeyApiError("UNAUTHORIZED", "root key required"))
  ELSE Return(Value(rootKey.value.valid, rootKey.value.isRootKey, ""))

\* lines 17-27, first matching branch wins
Decide(rootKey) ==
  IF rootKey.error.present
    THEN Throw(UnkeyApiError("INTERNAL_SERVER_ERROR", rootKey.error.message))
  ELSE IF ~rootKey.value.valid
    THEN Throw(UnkeyApiError("UNAUTHORIZED", "the root key is not valid"))
  ELSE IF ~rootKey.value.isRootKey
    THEN Throw(UnkeyApiError("UNAUTHORIZED", "root key required"))
  ELSE Return(rootKey.value)

\* line 16, the await: a rejection is rethrown as it is (there is no try/catch),
\* a fulfilment is bound to rootKey
AfterAwait(s) ==
  IF s.status = "rejected" THEN Throw(ThrownError(s.reason)) ELSE Decide(s.result)

(***************************************************************************)
(* The state machine                                                       *)
(***************************************************************************)
Init ==
  /\ pc = "idle"
  /\ header = Undefined
  /\ authorization = Undefined
  /\ calls = 0
  /\ keyArg = Undefined
  /\ settlement = Pending
  /\ outcome = NoOutcome

\* lines 11-16, up to the await: read the header, remove "Bearer ", reject a
\* falsy credential, otherwise call keyService.verifyKey with it
RootKeyAuth(h) ==
  /\ pc = "idle"
  /\ header' = h
  /\ authorization' = Authorization(h)
  /\ IF Falsy(Authorization(h))
       THEN /\ outcome' = Throw(UnkeyApiError("UNAUTHORIZED", "key required"))
            /\ pc' = "done"
            /\ UNCHANGED <<calls, keyArg>>
       ELSE /\ calls' = calls + 1
            /\ keyArg' = Authorization(h)
            /\ pc' = "awaiting"
            /\ UNCHANGED outcome
  /\ UNCHANGED settlement

\* the promise of keyService.verifyKey is fulfilled with a Result
VerifyKeyFulfils(r) ==
  /\ pc = "awaiting"
  /\ settlement' = Fulfilled(r)
  /\ pc' = "settled"
  /\ UNCHANGED <<header, authorization, calls, keyArg, outcome>>

\* keyService.verifyKey throws: the promise is rejected
VerifyKeyRejects(m) ==
  /\ pc = "awaiting"
  /\ settlement' = Rejected(m)
  /\ pc' = "settled"
  /\ UNCHANGED <<header, authorization, calls, keyArg, outcome>>

RootKeyAuthResumeRetries ==
  /\ pc = "settled"
  /\ IF calls < 2 /\ (settlement.status = "rejected" \/ settlement.result.error.present)
       THEN /\ calls' = calls + 1
            /\ settlement' = Pending
            /\ pc' = "awaiting"
            /\ UNCHANGED outcome
       ELSE /\ outcome' = AfterAwait(settlement)
            /\ pc' = "done"
            /\ UNCHANGED <<calls, settlement>>
  /\ UNCHANGED <<header, authorization, keyArg>>

\* lines 16-27, from the await on: the function completes
RootKeyAuthResume ==
  /\ pc = "settled"
  /\ outcome' = AfterAwait(settlement)
  /\ pc' = "done"
  /\ UNCHANGED <<header, authorization, calls, keyArg, settlement>>

Next ==
  \/ \E h \in Headers : RootKeyAuth(h)
  \/ \E r \in Results : VerifyKeyFulfils(r)
  \/ \E m \in Messages : VerifyKeyRejects(m)
  \/ RootKeyAuthResume

Spec == Init /\ [][Next]_vars

TypeOK ==
  /\ pc \in {"idle", "awaiting", "settled", "done"}
  /\ header \in Headers
  /\ calls \in 0..1
  /\ settlement.status \in {"pending", "fulfilled", "rejected"}
  /\ outcome.type \in {"none", "throw", "return"}

(***************************************************************************)
(* Properties                                                              *)
(***************************************************************************)
KeyRequired == Throw(UnkeyApiError("UNAUTHORIZED", "key required"))

\* the promise was fulfilled with a Result that carries no error
FulfilledWithValue ==
  /\ settlement.status = "fulfilled"
  /\ ~settlement.result.error.present
  /\ settlement.result.value.present

\* C1: a request without authorization header fails with UNAUTHORIZED,
\* "key required", and keyService.verifyKey is not called during the invocation.
C1_AbsentHeaderKeyRequired ==
  (pc # "idle" /\ ~header.present) =>
    /\ pc = "done"
    /\ outcome = KeyRequired
    /\ calls = 0
    /\ settlement = Pending

C1_Witness ==
  /\ pc = "done"
  /\ ~header.present
  /\ outcome.type = "throw"
  /\ outcome.error.message = "key required"

\* C2: no default-allow path.  A finished invocation has either returned or
\* thrown; it returned only if the service was called, its promise was fulfilled
\* with a Result without error whose value has valid and isRootKey true; every
\* other invocation ended in a thrown error, and nothing is returned before.
C2_NoDefaultAllow ==
  /\ pc # "done" => outcome = NoOutcome
  /\ pc = "done" => outcome.type \in {"throw", "return"}
  /\ outcome.type = "return" =>
       /\ calls = 1
       /\ FulfilledWithValue
       /\ settlement.result.value.valid
       /\ settlement.result.value.isRootKey
       /\ outcome.value.present
       /\ outcome.value.valid
       /\ outcome.value.isRootKey
  /\ outcome.type = "throw" =>
       /\ outcome.error.name \in {"UnkeyApiError", "Error"}
       /\ outcome.value = NoValue

C2_Witness ==
  /\ pc = "done"
  /\ outcome.type = "return"
  /\ calls = 1
  /\ header.present

\* C3: when the service returns an error result, rootKeyAuth fails with
\* INTERNAL_SERVER_ERROR and exactly that error's message, whatever the value
\* fields of the result are.
C3_ErrorResultInternalError ==
  (pc = "done" /\ settlement.status = "fulfilled" /\ settlement.result.error.present) =>
    outcome = Throw(UnkeyApiError("INTERNAL_SERVER_ERROR", settlement.result.error.message))

C3_Witness ==
  /\ pc = "done"
  /\ settlement.status = "fulfilled"
  /\ settlement.result.error.present
  /\ settlement.result.error.message = "db unavailable"
  /\ settlement.result.value.present
  /\ settlement.result.value.valid
  /\ settlement.result.value.isRootKey
  /\ outcome.error.code = "INTERNAL_SERVER_ERROR"

\* C4: when the service call throws, rootKeyAuth fails with a typed error of
\* code INTERNAL_SERVER_ERROR whose message is the thrown message.  The await of
\* line 16 has no try/catch, so the thrown error leaves rootKeyAuth as it is.
C4_Original ==
  (pc = "done" /\ settlement.status = "rejected") =>
    outcome = Throw(UnkeyApiError("INTERNAL_SERVER_ERROR", settlement.reason))

\* C5: a result without error and with valid false fails with UNAUTHORIZED,
\* "the root key is not valid", whatever isRootKey is.
C5_InvalidKey ==
  (pc = "done" /\ FulfilledWithValue /\ ~settlement.result.value.valid) =>
    outcome = Throw(UnkeyApiError("UNAUTHORIZED", "the root key is not valid"))

C5_Witness ==
  /\ pc = "done"
  /\ FulfilledWithValue
  /\ ~settlement.result.value.valid
  /\ settlement.result.value.isRootKey
  /\ outcome.error.message = "the root key is not valid"

\* C6: a result without error, with valid true and isRootKey false fails with
\* UNAUTHORIZED, "root key required", which is not the message of an invalid key.
C6_NotRootKey ==
  (/\ pc = "done"
   /\ FulfilledWithValue
   /\ settlement.result.value.valid
   /\ ~settlement.result.value.isRootKey) =>
    /\ outcome = Throw(UnkeyApiError("UNAUTHORIZED", "root key required"))
    /\ outcome.error.message # "the root key is not valid"

C6_Witness ==
  /\ pc = "done"
  /\ FulfilledWithValue
  /\ settlement.result.value.valid
  /\ ~settlement.result.value.isRootKey
  /\ outcome.error.message = "root key required"

\* C7: a result without error, with valid and isRootKey true makes rootKeyAuth
\* return the value of the result, every field of it unchanged.
C7_ReturnsValueUnmodified ==
  (/\ pc = "done"
   /\ FulfilledWithValue
   /\ settlement.result.value.valid
   /\ settlement.result.value.isRootKey) =>
    outcome = Return(settlement.result.value)

C7_Witness ==
  /\ pc = "done"
  /\ FulfilledWithValue
  /\ settlement.result.value.valid
  /\ settlement.result.value.isRootKey
  /\ outcome.type = "return"
  /\ outcome.value.ownerId = "owner_2"

\* C8 as stated: a header that is present and whose credential is empty after
\* the removal of "Bearer " (header "Bearer " or "") is passed to the service
\* as the empty string and does not end in the local "key required" error.
C8_Original ==
  (pc # "idle" /\ header.present /\ header.text \in {<<>>, Bearer}) =>
    /\ calls = 1
    /\ keyArg = Str(<<>>)
    /\ outcome # KeyRequired

\* C8 amended: a header that is present and whose credential is empty after the
\* removal of "Bearer " (header "Bearer " or "") is treated as a missing one:
\* rootKeyAuth fails with UNAUTHORIZED, "key required", and the service is not
\* called.
C8_EmptyCredentialKeyRequired ==
  (pc # "idle" /\ header.present /\ header.text \in {<<>>, Bearer}) =>
    /\ pc = "done"
    /\ outcome = KeyRequired
    /\ calls = 0
    /\ keyArg = Undefined

C8_Witness ==
  /\ pc = "done"
  /\ header = Str(Bearer)
  /\ authorization = Str(<<>>)
  /\ outcome.error.message = "key required"

\* C9 as stated: every invocation makes exactly one call to the service.
C9_Original ==
  pc = "done" => calls = 1

\* C9 amended: an invocation makes at most one call to the service: none when it
\* fails with the local "key required" error, exactly one otherwise, and the
\* service is not called again after its promise has settled.
C9_AtMostOneCall ==
  /\ calls \in {0, 1}
  /\ settlement.status # "pending" => calls = 1
  /\ pc \in {"awaiting", "settled"} => calls = 1
  /\ pc = "done" => (calls = 0 <=> outcome = KeyRequired)

C9_Witness ==
  /\ pc = "done"
  /\ calls = 1
  /\ settlement.status = "fulfilled"
  /\ settlement.result.error.present
  /\ outcome.error.code = "INTERNAL_SERVER_ERROR"

\* C10: the credential passed to the service is the header value with "Bearer "
\* removed only when it is a prefix of the value; a value that does not start
\* with "Bearer " is passed unchanged.
C10_Original ==
  LET t == header.text
      startsWith == Len(t) >= Len(Bearer) /\ SubSeq(t, 1, Len(Bearer)) = Bearer
      stripped == IF startsWith THEN SubSeq(t, Len(Bearer) + 1, Len(t)) ELSE t
  IN  calls > 0 => keyArg = Str(stripped)

====
